---------------------------- MODULE Spec2Model ----------------------------
(***************************************************************************)
(* Model of camera-daemon.py: the MJPEG frame broadcaster                  *)
(* (StreamingOutput), the per-client streaming loop (StreamingHandler      *)
(* .do_GET) and the day/night controller (StreamingServer.service_actions).*)
(*                                                                         *)
(* Three specifications share the variables:                               *)
(*   SpecWrite  - the capture producer calling StreamingOutput.write;      *)
(*   SpecStream - the producer and the client threads waiting on           *)
(*                output.condition;                                        *)
(*   SpecMode   - the accept-loop thread running service_actions.          *)
(***************************************************************************)
EXTENDS Integers, Sequences, FiniteSets, TLC

VARIABLES
    \* ---- StreamingOutput (camera-daemon.py 47-75)
    buffer,               \* self.buffer: contents of the BytesIO
    pos,                  \* self.buffer: stream position of the BytesIO
    frame,                \* self.frame (None until the first publish)
    lock,                 \* owner of self.condition's lock, or None
    waiters,              \* threads blocked inside self.condition.wait()
    shutdown_called,      \* self.shutdown_called (the "suspended" flag)
    out_framerate,        \* self.framerate, a fraction <<num, den>>
    last_picture_taken,   \* self.last_picture_taken
    last_saved,           \* bytes of the most recent snapshot file, or None
    \* ---- the producer thread inside write(buf)
    ppc,                  \* position of the producer inside write
    buf,                  \* the chunk passed to the write in progress
    clock,                \* datetime.now().timestamp(), whole seconds
    \* ---- the client threads inside do_GET (/stream.mjpg)
    cpc,                  \* position of each client thread
    cframe,               \* each client's local variable `frame`
    \* ---- StreamingServer (camera-daemon.py 77-145)
    openweather_api_key,  \* whether an api key is configured
    last_openweather_check,
    sunrise,
    sunset,
    mode,
    camera,               \* the PiCamera: recording flag and settings
    original,             \* original_framerate/shutter_speed/iso/expose_mode
    tpc,                  \* position of the accept-loop thread in the tick
    now,                  \* datetime.now() of the controller, whole hours
    \* ---- history (not program state)
    written,              \* the chunks of the completed write calls
    published,            \* the frames published so far; its length is the
                          \* generation of the latest publish
    cgen,                 \* generation each client observed at its last return
    wokenBy,              \* generation of the publish that notified it
    refreshed_at,         \* hour of the latest successful oracle call, or None
    lastTick              \* what the latest tick saw and did (None once the
                          \* clock has moved on)

streamVars == <<buffer, pos, frame, lock, waiters, last_picture_taken,
                last_saved, ppc, buf, clock, cpc, cframe, written, published,
                cgen, wokenBy>>
sharedVars == <<shutdown_called, out_framerate, camera>>
modeVars   == <<openweather_api_key, last_openweather_check, sunrise, sunset,
                mode, original, tpc, now, refreshed_at, lastTick>>
vars == <<streamVars, sharedVars, modeVars>>

\* Python's None, where a thread name is expected
None == "None"
\* Python's None, where a datetime is expected (hours are never negative)
NoTime == 0 - 1
\* Python's None, where bytes are expected (no byte is negative)
NoBytes == << 0 - 1 >>

-----------------------------------------------------------------------------
(* Bounds of the model.                                                    *)

\* number of write calls the producer makes
MaxWrites == 3
\* last second of the producer's clock
MaxClock == 1
\* last hour of the controller's clock
MaxTime == 30

Clients == {"c1", "c2"}
Producer == "producer"

\* The two bytes of the JPEG start-of-image marker, b'\xff\xd8'.
SOI == <<255, 216>>

\* The chunks the capture source hands to write.
Chunks == { <<255, 216, 65, 65, 65>>,
            <<255, 216, 66, 66, 66>>,
            <<255, 216>>,
            <<255>> }

\* The chunks written while client threads are modelled as well: one that
\* begins with the marker and one that does not.
StreamChunks == { <<255, 216, 65, 65, 65>>,
                  <<255>> }

\* framerate given to StreamingOutput at construction
\* (settings['camera_framerate']), frames per second
ConfiguredFramerate == <<1, 1>>

-----------------------------------------------------------------------------
(* bytes and io.BytesIO                                                    *)

\* bytes.startswith(b'\xff\xd8')
StartsWithMarker(b) == Len(b) >= 2 /\ b[1] = SOI[1] /\ b[2] = SOI[2]

\* BytesIO.truncate(): cut the contents at the current position
Truncate(content, p) == SubSeq(content, 1, p)

\* BytesIO.getvalue(): the whole contents, whatever the position
GetValue(content, p) == content

\* BytesIO.write(b) at position p: overwrite in place, extend at the end
BufWrite(content, p, b) ==
    SubSeq(content, 1, p) \o b \o SubSeq(content, p + Len(b) + 1, Len(content))

-----------------------------------------------------------------------------
(* StreamingOutput.write(buf), run by the capture source's encoder thread. *)
(* The thread takes the condition's lock for lines 71-73 only, so the call *)
(* is modelled in the steps at which other threads can interleave.         *)

\* line 61: (now.timestamp() - self.last_picture_taken) >= (1.0 / self.framerate)
SnapshotElapsed(t, last, rate) == (t - last) * rate[1] >= rate[2]

\* line 61 without line 59: the save is not gated by shutdown_called
SnapshotDueUngated ==
    SnapshotElapsed(clock, last_picture_taken, out_framerate)

\* lines 59-61: whether this write call saves a picture file
SnapshotDue == /\ ~shutdown_called
               /\ SnapshotElapsed(clock, last_picture_taken, out_framerate)

\* lines 62-65: the picture file receives buf; the throttle restarts
SaveSnapshot(b) ==
    /\ last_saved' = IF SnapshotDue THEN b ELSE last_saved
    /\ last_picture_taken' = IF SnapshotDue THEN clock ELSE last_picture_taken

\* Condition.notify() in place of notify_all(): one waiting thread is released
NotifyOne ==
    IF waiters = {}
    THEN UNCHANGED <<cpc, wokenBy, waiters>>
    ELSE \E w \in waiters :
            /\ cpc' = [cpc EXCEPT ![w] = "notified"]
            /\ wokenBy' = [wokenBy EXCEPT ![w] = Len(published) + 1]
            /\ waiters' = waiters \ {w}

\* Condition.notify_all(): every thread inside wait() is released from the
\* wait queue; each still has to take the lock again before wait() returns
NotifyAll ==
    /\ cpc' = [c \in Clients |-> IF c \in waiters THEN "notified" ELSE cpc[c]]
    /\ wokenBy' = [c \in Clients |->
                     IF c \in waiters THEN Len(published) + 1 ELSE wokenBy[c]]
    /\ waiters' = {}

CanWrite == /\ ppc = "idle"
            /\ camera.recording
            /\ Len(written) < MaxWrites

\* line 64 raises (the picture directory is not writable, the disk is full):
\* the exception leaves write before line 67
WriteSnapshotFails(b) ==
    /\ CanWrite
    /\ SnapshotDue
    /\ ppc' = "raised"
    /\ buf' = b
    /\ UNCHANGED <<buffer, pos, frame, lock, waiters, last_picture_taken,
                   last_saved, clock, cpc, cframe, written, published,
                   cgen, wokenBy>>
    /\ UNCHANGED <<sharedVars, modeVars>>

\* lines 59-67 and 75 for a chunk that does not begin with the marker
WriteAppend(b) ==
    /\ CanWrite
    /\ ~StartsWithMarker(b)
    /\ SaveSnapshot(b)
    /\ buffer' = BufWrite(buffer, pos, b)
    /\ pos' = pos + Len(b)
    /\ written' = Append(written, b)
    /\ buf' = b
    /\ UNCHANGED <<frame, lock, waiters, ppc, clock, cpc, cframe, published,
                   cgen, wokenBy>>
    /\ UNCHANGED <<sharedVars, modeVars>>

\* lines 59-70 for a chunk that begins with the marker: up to the truncate
WriteMarker(b) ==
    /\ CanWrite
    /\ StartsWithMarker(b)
    /\ SaveSnapshot(b)
    /\ buffer' = Truncate(buffer, pos)
    /\ buf' = b
    /\ ppc' = "lock"
    /\ UNCHANGED <<pos, frame, lock, waiters, clock, cpc, cframe, written,
                   published, cgen, wokenBy>>
    /\ UNCHANGED <<sharedVars, modeVars>>

\* line 71: with self.condition (acquire)
WriteLock ==
    /\ ppc = "lock"
    /\ lock = None
    /\ lock' = Producer
    /\ ppc' = "publish"
    /\ UNCHANGED <<buffer, pos, frame, waiters, last_picture_taken, last_saved,
                   buf, clock, cpc, cframe, written, published, cgen, wokenBy>>
    /\ UNCHANGED <<sharedVars, modeVars>>

\* lines 72-73: self.frame = self.buffer.getvalue(); notify_all()
WritePublish ==
    /\ ppc = "publish"
    /\ frame' = GetValue(buffer, pos)
    /\ published' = Append(published, frame')
    /\ NotifyAll
    /\ ppc' = "unlock"
    /\ UNCHANGED <<buffer, pos, lock, last_picture_taken, last_saved, buf,
                   clock, cframe, written, cgen>>
    /\ UNCHANGED <<sharedVars, modeVars>>

\* end of the with block (release), line 74 seek(0), line 75 write(buf)
WriteFinish ==
    /\ ppc = "unlock"
    /\ lock' = None
    /\ buffer' = BufWrite(buffer, 0, buf)
    /\ pos' = Len(buf)
    /\ written' = Append(written, buf)
    /\ ppc' = "idle"
    /\ UNCHANGED <<frame, waiters, last_picture_taken, last_saved, buf, clock,
                   cpc, cframe, published, cgen, wokenBy>>
    /\ UNCHANGED <<sharedVars, modeVars>>

\* the producer's clock moves on by one second
ClockTick ==
    /\ clock < MaxClock
    /\ clock' = clock + 1
    /\ UNCHANGED <<buffer, pos, frame, lock, waiters, last_picture_taken,
                   last_saved, ppc, buf, cpc, cframe, written, published,
                   cgen, wokenBy>>
    /\ UNCHANGED <<sharedVars, modeVars>>

-----------------------------------------------------------------------------
(* StreamingHandler.do_GET for /stream.mjpg, one thread per client         *)
(* (ThreadingMixIn).                                                       *)

clientFrame == <<buffer, pos, frame, last_picture_taken, last_saved, ppc, buf,
                 clock, written, published>>

\* lines 161-170: the response headers are sent, the loop is entered;
\* line 170: with output.condition (acquire)
ClientEnter(c) ==
    /\ cpc[c] = "loop"
    /\ lock = None
    /\ lock' = c
    /\ cpc' = [cpc EXCEPT ![c] = "enter"]
    /\ UNCHANGED <<clientFrame, waiters, cframe, cgen, wokenBy>>
    /\ UNCHANGED <<sharedVars, modeVars>>

\* line 171: output.condition.wait() releases the lock and blocks
ClientWait(c) ==
    /\ cpc[c] = "enter"
    /\ lock' = None
    /\ waiters' = waiters \cup {c}
    /\ cpc' = [cpc EXCEPT ![c] = "waiting"]
    /\ UNCHANGED <<clientFrame, cframe, cgen, wokenBy>>
    /\ UNCHANGED <<sharedVars, modeVars>>

\* a wait that can return without a notify (a wait with a timeout, a
\* spurious wakeup)
ClientWakeSpurious(c) ==
    /\ cpc[c] \in {"waiting", "notified"}
    /\ lock = None
    /\ lock' = c
    /\ waiters' = waiters \ {c}
    /\ cpc' = [cpc EXCEPT ![c] = "woken"]
    /\ UNCHANGED <<clientFrame, cframe, cgen, wokenBy>>
    /\ UNCHANGED <<sharedVars, modeVars>>

\* line 171: a notified thread takes the lock again; wait() returns
ClientWake(c) ==
    /\ cpc[c] = "notified"
    /\ lock = None
    /\ lock' = c
    /\ cpc' = [cpc EXCEPT ![c] = "woken"]
    /\ UNCHANGED <<clientFrame, waiters, cframe, cgen, wokenBy>>
    /\ UNCHANGED <<sharedVars, modeVars>>

\* lines 172-178 with the socket writes inside the with block: the lock
\* is kept while the part is sent
ClientReadKeepsLock(c) ==
    /\ cpc[c] = "woken"
    /\ cframe' = [cframe EXCEPT ![c] = frame]
    /\ cgen' = [cgen EXCEPT ![c] = Len(published)]
    /\ cpc' = [cpc EXCEPT ![c] = "send"]
    /\ UNCHANGED <<clientFrame, lock, waiters, wokenBy>>
    /\ UNCHANGED <<sharedVars, modeVars>>

\* line 172: frame = output.frame, then the with block ends (release)
ClientRead(c) ==
    /\ cpc[c] = "woken"
    /\ cframe' = [cframe EXCEPT ![c] = frame]
    /\ cgen' = [cgen EXCEPT ![c] = Len(published)]
    /\ lock' = None
    /\ cpc' = [cpc EXCEPT ![c] = "send"]
    /\ UNCHANGED <<clientFrame, waiters, wokenBy>>
    /\ UNCHANGED <<sharedVars, modeVars>>

\* lines 173-178: the part is written to the socket
ClientSend(c) ==
    /\ cpc[c] = "send"
    /\ cpc' = [cpc EXCEPT ![c] = "loop"]
    /\ UNCHANGED <<clientFrame, lock, waiters, cframe, cgen, wokenBy>>
    /\ UNCHANGED <<sharedVars, modeVars>>

\* lines 173-178 without the try of lines 168-180: the exception is not
\* caught in the handler and ends the other handlers as well
ClientSendFailsPropagates(c) ==
    /\ cpc[c] = "send"
    /\ cpc' = [d \in Clients |-> "closed"]
    /\ UNCHANGED <<clientFrame, lock, waiters, cframe, cgen, wokenBy>>
    /\ UNCHANGED <<sharedVars, modeVars>>

\* lines 173-180: a socket write raises; the except clause ends do_GET
ClientSendFails(c) ==
    /\ cpc[c] = "send"
    /\ cpc' = [cpc EXCEPT ![c] = "closed"]
    /\ UNCHANGED <<clientFrame, lock, waiters, cframe, cgen, wokenBy>>
    /\ UNCHANGED <<sharedVars, modeVars>>

-----------------------------------------------------------------------------
(* StreamingServer.service_actions, called by serve_forever on the         *)
(* accept-loop thread once per poll (main, line 299).                      *)

\* hours after which the cached sun window is looked up again (line 109)
StaleAfter == 4
\* timedelta.seconds is the seconds field of the normalised timedelta: what
\* is left of the difference after whole days are taken out (line 109)
DayHours == 24

\* the (sunrise, sunset) pairs the weather api answers with
SunWindows == { <<6, 18>>, <<30, 42>> }

\* lines 120-124 and 127: the night settings
NightFramerate == <<1, 6>>
NightShutterSpeed == 6000000
NightIso == 800

\* (now - self.last_openweather_check).seconds, in hours
TimedeltaSeconds(t, last) == (t - last) % DayHours

\* line 109: whether the tick asks the weather api
NeedsRefresh ==
    \/ TimedeltaSeconds(now, last_openweather_check) > StaleAfter
    \/ sunrise = NoTime

\* line 115: now < self.sunrise or now > self.sunset
IsNightTime(t, sr, ss) == t < sr \/ t > ss

\* line 130: now > self.sunrise and now < self.sunset
IsDayTime(t, sr, ss) == t > sr /\ t < ss

TickRecord(oracle, outcome) ==
    [oracle |-> oracle, outcome |-> outcome,
     before |-> <<sunrise, sunset>>, prev_refresh |-> refreshed_at]

\* no tick has run since the clock last moved
NoTick ==
    [oracle |-> "not_called", outcome |-> "no_tick",
     before |-> <<NoTime, NoTime>>, prev_refresh |-> NoTime]

tickFrame == <<openweather_api_key, last_openweather_check, original, now>>

\* lines 104-105: no api key, the tick returns at once
TickNoKey ==
    /\ tpc = "idle"
    /\ ~openweather_api_key
    /\ lastTick' = TickRecord("not_called", "skipped")
    /\ UNCHANGED <<tickFrame, sunrise, sunset, mode, tpc, refreshed_at>>
    /\ UNCHANGED <<streamVars, sharedVars>>

\* lines 106-109: the cached window is taken
TickCached ==
    /\ tpc = "idle"
    /\ openweather_api_key
    /\ ~NeedsRefresh
    /\ tpc' = "decide"
    /\ lastTick' = TickRecord("not_called", "running")
    /\ UNCHANGED <<tickFrame, sunrise, sunset, mode, refreshed_at>>
    /\ UNCHANGED <<streamVars, sharedVars>>

\* lines 109-113 and 40: the weather api answers 200 with the window w
TickRefresh(w) ==
    /\ tpc = "idle"
    /\ openweather_api_key
    /\ NeedsRefresh
    /\ sunrise' = w[1]
    /\ sunset' = w[2]
    /\ refreshed_at' = now
    /\ tpc' = "decide"
    /\ lastTick' = TickRecord("ok", "running")
    /\ UNCHANGED <<tickFrame, mode>>
    /\ UNCHANGED <<streamVars, sharedVars>>

\* lines 109-113 and 37-39: the status is not 200, (None, None) is returned
\* and assigned to self.sunrise, self.sunset
TickRefreshBadStatus ==
    /\ tpc = "idle"
    /\ openweather_api_key
    /\ NeedsRefresh
    /\ sunrise' = NoTime
    /\ sunset' = NoTime
    /\ tpc' = "decide"
    /\ lastTick' = TickRecord("bad_status", "running")
    /\ UNCHANGED <<tickFrame, mode, refreshed_at>>
    /\ UNCHANGED <<streamVars, sharedVars>>

\* line 36: requests.get raises (no route, timeout); nothing catches it
TickRefreshRaises ==
    /\ tpc = "idle"
    /\ openweather_api_key
    /\ NeedsRefresh
    /\ tpc' = "raised"
    /\ lastTick' = TickRecord("exception", "raised")
    /\ UNCHANGED <<tickFrame, sunrise, sunset, mode, refreshed_at>>
    /\ UNCHANGED <<streamVars, sharedVars>>

\* lines 115 and 130: mode is Day or Night, so one of the two comparisons of
\* now with self.sunrise is evaluated; with None it raises TypeError
TickDecideRaises ==
    /\ tpc = "decide"
    /\ sunrise = NoTime
    /\ tpc' = "raised"
    /\ lastTick' = [lastTick EXCEPT !.outcome = "raised"]
    /\ UNCHANGED <<tickFrame, sunrise, sunset, mode, refreshed_at>>
    /\ UNCHANGED <<streamVars, sharedVars>>

\* line 115 without the test of self.mode
TickToNightAnyMode ==
    /\ tpc = "decide"
    /\ sunrise # NoTime
    /\ IsNightTime(now, sunrise, sunset)
    /\ mode' = "night"
    /\ tpc' = "n_suspend"
    /\ lastTick' = [lastTick EXCEPT !.outcome = "to_night"]
    /\ UNCHANGED <<tickFrame, sunrise, sunset, refreshed_at>>
    /\ UNCHANGED <<streamVars, sharedVars>>

\* lines 115-117
TickToNight ==
    /\ tpc = "decide"
    /\ sunrise # NoTime
    /\ mode = "day"
    /\ IsNightTime(now, sunrise, sunset)
    /\ mode' = "night"
    /\ tpc' = "n_suspend"
    /\ lastTick' = [lastTick EXCEPT !.outcome = "to_night"]
    /\ UNCHANGED <<tickFrame, sunrise, sunset, refreshed_at>>
    /\ UNCHANGED <<streamVars, sharedVars>>

\* lines 130-132
TickToDay ==
    /\ tpc = "decide"
    /\ sunrise # NoTime
    /\ ~(mode = "day" /\ IsNightTime(now, sunrise, sunset))
    /\ mode = "night"
    /\ IsDayTime(now, sunrise, sunset)
    /\ mode' = "day"
    /\ tpc' = "d_suspend"
    /\ lastTick' = [lastTick EXCEPT !.outcome = "to_day"]
    /\ UNCHANGED <<tickFrame, sunrise, sunset, refreshed_at>>
    /\ UNCHANGED <<streamVars, sharedVars>>

\* lines 115 and 130 both false: the tick returns
TickNoChange ==
    /\ tpc = "decide"
    /\ sunrise # NoTime
    /\ ~(mode = "day" /\ IsNightTime(now, sunrise, sunset))
    /\ ~(mode = "night" /\ IsDayTime(now, sunrise, sunset))
    /\ tpc' = "idle"
    /\ lastTick' = [lastTick EXCEPT !.outcome = "none"]
    /\ UNCHANGED <<tickFrame, sunrise, sunset, mode, refreshed_at>>
    /\ UNCHANGED <<streamVars, sharedVars>>

\* what a step of a transition leaves alone
stepFrame == <<tickFrame, sunrise, sunset, mode, refreshed_at, lastTick>>

\* camera.stop_recording() returns once the encoder thread has ended, so no
\* write call is in progress
EncoderAtRest == ppc \in {"idle", "raised"}

\* line 118
NightSuspend ==
    /\ tpc = "n_suspend"
    /\ shutdown_called' = TRUE
    /\ tpc' = "n_stop"
    /\ UNCHANGED <<stepFrame, streamVars, out_framerate, camera>>

\* line 119
NightStop ==
    /\ tpc = "n_stop"
    /\ EncoderAtRest
    /\ camera' = [camera EXCEPT !.recording = FALSE]
    /\ tpc' = "n_settings"
    /\ UNCHANGED <<stepFrame, streamVars, shutdown_called, out_framerate>>

\* lines 120-124
NightSettings ==
    /\ tpc = "n_settings"
    /\ out_framerate' = NightFramerate
    /\ camera' = [camera EXCEPT !.framerate = NightFramerate,
                                !.shutter_speed = NightShutterSpeed,
                                !.iso = NightIso]
    /\ tpc' = "n_settle"
    /\ UNCHANGED <<stepFrame, streamVars, shutdown_called>>

\* lines 125-126: sleep(30)
NightSettle ==
    /\ tpc = "n_settle"
    /\ tpc' = "n_exposure"
    /\ UNCHANGED <<stepFrame, streamVars, sharedVars>>

\* line 127
NightExposure ==
    /\ tpc = "n_exposure"
    /\ camera' = [camera EXCEPT !.exposure_mode = "off"]
    /\ tpc' = "n_resume"
    /\ UNCHANGED <<stepFrame, streamVars, shutdown_called, out_framerate>>

\* line 128
NightResume ==
    /\ tpc = "n_resume"
    /\ shutdown_called' = FALSE
    /\ tpc' = "n_start"
    /\ UNCHANGED <<stepFrame, streamVars, out_framerate, camera>>

\* the transition without line 129: recording is not started again
NightStartForgotten ==
    /\ tpc = "n_start"
    /\ tpc' = "idle"
    /\ UNCHANGED <<stepFrame, streamVars, sharedVars>>

\* line 129
NightStart ==
    /\ tpc = "n_start"
    /\ camera' = [camera EXCEPT !.recording = TRUE]
    /\ tpc' = "idle"
    /\ UNCHANGED <<stepFrame, streamVars, shutdown_called, out_framerate>>

\* line 129: camera.start_recording raises; nothing catches it
NightStartFails ==
    /\ tpc = "n_start"
    /\ tpc' = "raised"
    /\ UNCHANGED <<stepFrame, streamVars, sharedVars>>

\* line 133
DaySuspend ==
    /\ tpc = "d_suspend"
    /\ shutdown_called' = TRUE
    /\ tpc' = "d_stop"
    /\ UNCHANGED <<stepFrame, streamVars, out_framerate, camera>>

\* line 134
DayStop ==
    /\ tpc = "d_stop"
    /\ EncoderAtRest
    /\ camera' = [camera EXCEPT !.recording = FALSE]
    /\ tpc' = "d_settings"
    /\ UNCHANGED <<stepFrame, streamVars, shutdown_called, out_framerate>>

\* lines 135-139, without line 140: the exposure mode stays locked
DaySettingsKeepsExposure ==
    /\ tpc = "d_settings"
    /\ out_framerate' = original.framerate
    /\ camera' = [camera EXCEPT !.framerate = original.framerate,
                                !.shutter_speed = original.shutter_speed,
                                !.iso = original.iso]
    /\ tpc' = "d_start"
    /\ UNCHANGED <<stepFrame, streamVars, shutdown_called>>

\* lines 135-140
DaySettings ==
    /\ tpc = "d_settings"
    /\ out_framerate' = original.framerate
    /\ camera' = [camera EXCEPT !.framerate = original.framerate,
                                !.shutter_speed = original.shutter_speed,
                                !.iso = original.iso,
                                !.exposure_mode = original.exposure_mode]
    /\ tpc' = "d_start"
    /\ UNCHANGED <<stepFrame, streamVars, shutdown_called>>

\* line 141
DayStart ==
    /\ tpc = "d_start"
    /\ camera' = [camera EXCEPT !.recording = TRUE]
    /\ tpc' = "idle"
    /\ UNCHANGED <<stepFrame, streamVars, shutdown_called, out_framerate>>

\* line 141: camera.start_recording raises; nothing catches it
DayStartFails ==
    /\ tpc = "d_start"
    /\ tpc' = "raised"
    /\ UNCHANGED <<stepFrame, streamVars, sharedVars>>

\* an hour passes between two polls of the accept loop
Advance ==
    /\ tpc = "idle"
    /\ now < MaxTime
    /\ now' = now + 1
    /\ lastTick' = NoTick
    /\ UNCHANGED <<openweather_api_key, last_openweather_check, sunrise,
                   sunset, mode, original, tpc, refreshed_at>>
    /\ UNCHANGED <<streamVars, sharedVars>>

-----------------------------------------------------------------------------
(* The accept loop (serve_forever, line 299) and StreamingServer.shutdown. *)

\* connections accepted by a thread of their own: a handler starts whatever
\* the accept-loop thread is doing
AcceptAnytime(c) ==
    /\ cpc[c] = "new"
    /\ cpc' = [cpc EXCEPT ![c] = "loop"]
    /\ UNCHANGED <<clientFrame, lock, waiters, cframe, cgen, wokenBy>>
    /\ UNCHANGED <<sharedVars, modeVars>>

\* serve_forever handles a pending request and calls service_actions on the
\* same thread, one after the other: a connection is accepted, and its
\* handler thread started (ThreadingMixIn), only between two ticks;
\* do_GET lines 161-169 then send the response headers
Accept(c) ==
    /\ cpc[c] = "new"
    /\ tpc = "idle"
    /\ cpc' = [cpc EXCEPT ![c] = "loop"]
    /\ UNCHANGED <<clientFrame, lock, waiters, cframe, cgen, wokenBy>>
    /\ UNCHANGED <<sharedVars, modeVars>>

\* line 144: super().shutdown() returns once serve_forever has left its
\* loop, which it does between two polls
ShutdownServer ==
    /\ tpc = "idle"
    /\ tpc' = "stopping"
    /\ UNCHANGED <<tickFrame, sunrise, sunset, mode, refreshed_at, lastTick>>
    /\ UNCHANGED <<streamVars, sharedVars>>

\* line 145: self.camera.stop_recording()
ShutdownCamera ==
    /\ tpc = "stopping"
    /\ EncoderAtRest
    /\ camera' = [camera EXCEPT !.recording = FALSE]
    /\ tpc' = "shutdown"
    /\ UNCHANGED <<tickFrame, sunrise, sunset, mode, refreshed_at, lastTick>>
    /\ UNCHANGED <<streamVars, shutdown_called, out_framerate>>

-----------------------------------------------------------------------------
(* Construction: StreamingOutput.__init__ (48-56), PiCamera(...) (288),    *)
(* StreamingServer.__init__ (81-101).                                      *)

\* settings of a PiCamera built with a framerate only: automatic shutter
\* speed (0), automatic ISO (0), exposure mode 'auto'
CameraAtStartup ==
    [recording |-> TRUE, framerate |-> ConfiguredFramerate,
     shutter_speed |-> 0, iso |-> 0, exposure_mode |-> "auto"]

Settings(cam) ==
    [framerate |-> cam.framerate, shutter_speed |-> cam.shutter_speed,
     iso |-> cam.iso, exposure_mode |-> cam.exposure_mode]

InitBroadcaster ==
    /\ buffer = <<>>
    /\ pos = 0
    /\ frame = NoBytes
    /\ lock = None
    /\ waiters = {}
    /\ shutdown_called = FALSE
    /\ out_framerate = ConfiguredFramerate
    /\ last_picture_taken = 0
    /\ last_saved = NoBytes
    /\ ppc = "idle"
    /\ buf = <<>>
    /\ clock = 0
    /\ cframe = [c \in Clients |-> NoBytes]
    /\ written = <<>>
    /\ published = <<>>
    /\ cgen = [c \in Clients |-> 0]
    /\ wokenBy = [c \in Clients |-> 0]

\* the clients have connected and entered the streaming loop
InitOutput ==
    /\ InitBroadcaster
    /\ cpc = [c \in Clients |-> "loop"]

InitServer ==
    /\ openweather_api_key \in BOOLEAN
    /\ now = 0
    /\ last_openweather_check = 0
    /\ sunrise = NoTime
    /\ sunset = NoTime
    /\ mode = "day"
    /\ camera = CameraAtStartup
    /\ original = Settings(CameraAtStartup)
    /\ tpc = "idle"
    /\ refreshed_at = NoTime
    /\ lastTick = NoTick

Init == InitOutput /\ InitServer

\* the daemon with an api key configured and no client connected yet
InitDaemon ==
    /\ InitBroadcaster
    /\ cpc = [c \in Clients |-> "new"]
    /\ InitServer
    /\ openweather_api_key

NextWrite ==
    \/ \E b \in Chunks : WriteSnapshotFails(b)
    \/ \E b \in Chunks : WriteAppend(b)
    \/ \E b \in Chunks : WriteMarker(b)
    \/ WriteLock
    \/ WritePublish
    \/ WriteFinish
    \/ ClockTick

NextStream ==
    \/ \E b \in StreamChunks : WriteSnapshotFails(b)
    \/ \E b \in StreamChunks : WriteAppend(b)
    \/ \E b \in StreamChunks : WriteMarker(b)
    \/ WriteLock
    \/ WritePublish
    \/ WriteFinish
    \/ ClockTick
    \/ \E c \in Clients : ClientEnter(c)
    \/ \E c \in Clients : ClientWait(c)
    \/ \E c \in Clients : ClientWake(c)
    \/ \E c \in Clients : ClientRead(c)
    \/ \E c \in Clients : ClientSend(c)
    \/ \E c \in Clients : ClientSendFails(c)

NextMode ==
    \/ TickNoKey
    \/ TickCached
    \/ \E w \in SunWindows : TickRefresh(w)
    \/ TickRefreshBadStatus
    \/ TickRefreshRaises
    \/ TickDecideRaises
    \/ TickToNight
    \/ TickToDay
    \/ TickNoChange
    \/ NightSuspend
    \/ NightStop
    \/ NightSettings
    \/ NightSettle
    \/ NightExposure
    \/ NightResume
    \/ NightStart
    \/ NightStartFails
    \/ DaySuspend
    \/ DayStop
    \/ DaySettings
    \/ DayStart
    \/ DayStartFails
    \/ Advance

\* the sun window the weather api answers with while the whole daemon is
\* modelled: the one of the first day
DaemonWindows == { <<6, 18>> }

\* the client that connects while the ticks are modelled as well
DaemonClients == {"c1"}

\* the whole daemon at one hour of the day, before sunrise: the producer,
\* the clients, the accept loop with its ticks, and shutdown
NextDaemon ==
    \/ \E b \in StreamChunks : WriteSnapshotFails(b)
    \/ \E b \in StreamChunks : WriteAppend(b)
    \/ \E b \in StreamChunks : WriteMarker(b)
    \/ WriteLock
    \/ WritePublish
    \/ WriteFinish
    \/ ClockTick
    \/ \E c \in DaemonClients : Accept(c)
    \/ \E c \in DaemonClients : ClientEnter(c)
    \/ \E c \in DaemonClients : ClientWait(c)
    \/ \E c \in DaemonClients : ClientWake(c)
    \/ \E c \in DaemonClients : ClientRead(c)
    \/ \E c \in DaemonClients : ClientSend(c)
    \/ \E c \in DaemonClients : ClientSendFails(c)
    \/ \E w \in DaemonWindows : TickRefresh(w)
    \/ TickCached
    \/ TickToNight
    \/ TickNoChange
    \/ NightSuspend
    \/ NightStop
    \/ NightSettings
    \/ NightSettle
    \/ NightExposure
    \/ NightResume
    \/ NightStart
    \/ NightStartFails
    \/ ShutdownServer
    \/ ShutdownCamera

\* the producer alone
SpecWrite == Init /\ [][NextWrite]_vars
\* the producer and the client threads
SpecStream == Init /\ [][NextStream]_vars
\* the accept-loop thread's ticks
SpecMode == Init /\ [][NextMode]_vars
\* the whole daemon
SpecDaemon == InitDaemon /\ [][NextDaemon]_vars

\* the accept loop with its ticks, two connections and the producer
NextAccept ==
    \/ \E b \in StreamChunks : WriteAppend(b)
    \/ \E b \in StreamChunks : WriteMarker(b)
    \/ WriteLock
    \/ WritePublish
    \/ WriteFinish
    \/ \E c \in Clients : Accept(c)
    \/ \E c \in Clients : ClientEnter(c)
    \/ \E c \in Clients : ClientWait(c)
    \/ \E c \in Clients : ClientWake(c)
    \/ \E c \in Clients : ClientRead(c)
    \/ \E c \in Clients : ClientSend(c)
    \/ \E w \in DaemonWindows : TickRefresh(w)
    \/ TickCached
    \/ TickToNight
    \/ TickNoChange
    \/ NightSuspend
    \/ NightStop
    \/ NightSettings
    \/ NightSettle
    \/ NightExposure
    \/ NightResume
    \/ NightStart

SpecAccept == InitDaemon /\ [][NextAccept]_vars

\* What the threads' scheduling gives: the accept-loop thread carries a
\* transition on through its camera calls and its sleep; the encoder thread,
\* while recording, goes on handing frames to write and completes each
\* call; a thread that asks for the lock gets it; a notified client leaves
\* the wait and reads the frame.
FairDaemon ==
    /\ WF_vars(NightSettings)
    /\ WF_vars(NightSettle)
    /\ WF_vars(NightExposure)
    /\ WF_vars(NightResume)
    /\ WF_vars(NightStart)
    /\ WF_vars(\E b \in StreamChunks : WriteMarker(b))
    /\ SF_vars(WriteLock)
    /\ WF_vars(WritePublish)
    /\ WF_vars(WriteFinish)
    /\ \A c \in DaemonClients : SF_vars(ClientWake(c))
    /\ \A c \in DaemonClients : WF_vars(ClientRead(c))

\* the whole daemon, with its threads scheduled
SpecDaemonFair == SpecDaemon /\ FairDaemon

-----------------------------------------------------------------------------
(* What the completed write calls should have produced, computed from the  *)
(* chunks alone (no BytesIO).                                              *)

RECURSIVE Concat(_)
\* the chunks of a sequence joined into one byte string
Concat(chunks) ==
    IF chunks = <<>> THEN <<>> ELSE Head(chunks) \o Concat(Tail(chunks))

\* the indexes of the chunks of w that begin with the marker
MarkerIndexes(w) == {i \in 1..Len(w) : StartsWithMarker(w[i])}

NumMarkers(w) == Cardinality(MarkerIndexes(w))

\* index of the latest marker chunk of w before index i (0: there is none)
PreviousMarker(w, i) ==
    IF \E j \in MarkerIndexes(w) : j < i
    THEN CHOOSE j \in MarkerIndexes(w) :
            j < i /\ \A k \in MarkerIndexes(w) : k < i => k <= j
    ELSE 0

\* the bytes written since the marker chunk before index i, that chunk
\* included (everything written, when there is none)
AccumulatedBefore(w, i) ==
    LET j == PreviousMarker(w, i)
    IN  Concat(SubSeq(w, IF j = 0 THEN 1 ELSE j, i - 1))

\* the chunks written since the latest marker chunk, the write in progress
\* included
AllWritten == IF ppc \in {"lock", "publish", "unlock"}
              THEN Append(written, buf) ELSE written

-----------------------------------------------------------------------------
(* StreamingOutput.write: claims C1 and C2, under SpecWrite.               *)

\* C1: once the write calls made so far have returned, the number of
\* publishes is the number of marker chunks written minus one (none for the
\* very first marker chunk, one for every later one), and chunks without
\* the marker publish nothing.
C1_PublishesAreMarkersLessOne ==
    ppc = "idle" =>
        Len(published) = IF NumMarkers(written) = 0 THEN 0
                         ELSE NumMarkers(written) - 1

\* What write does instead: one publish for every marker chunk, the very
\* first included (it publishes whatever precedes it, the empty bytes on a
\* fresh broadcaster).
WritePublishesOncePerMarker ==
    ppc = "idle" => Len(published) = NumMarkers(written)

\* the first part of C2, which write satisfies: the k-th publish carries the
\* bytes accumulated before the k-th marker chunk since the marker chunk
\* before it, and nothing else
WriteFramesAreAccumulatedBytes ==
    /\ Len(published) =
         Cardinality({i \in MarkerIndexes(AllWritten) :
                        i <= Len(written) \/ ppc = "unlock"})
    /\ \A i \in MarkerIndexes(AllWritten) :
         LET k == Cardinality({j \in MarkerIndexes(AllWritten) : j <= i})
         IN  k <= Len(published) =>
                published[k] = AccumulatedBefore(AllWritten, i)
    /\ frame = IF published = <<>> THEN NoBytes
               ELSE published[Len(published)]

ScenarioAB == << <<255, 216, 65, 65, 65>>, <<255, 216, 66, 66, 66>> >>

\* C2: every published frame is the bytes accumulated since the previous
\* marker chunk, and after writing 0xFF 0xD8 'A' 'A' 'A' and then
\* 0xFF 0xD8 'B' 'B' 'B' there is exactly one publish, whose frame is "AAA".
C2_ScenarioPublishesAAAOnce ==
    /\ WriteFramesAreAccumulatedBytes
    /\ (ppc = "idle" /\ written = ScenarioAB) =>
          /\ Len(published) = 1
          /\ frame = <<65, 65, 65>>

-----------------------------------------------------------------------------
(* The wait on output.condition: claims C3 and C4, under SpecStream.       *)

\* C3: whenever a client returns from the wait and reads output.frame, the
\* publish it observes is newer than the one it observed at its previous
\* return, and is the latest publish, whose frame it gets.
C3_WaitReturnsNewerPublish ==
    [][\A c \in Clients :
         (cpc[c] = "woken" /\ cpc'[c] = "send") =>
            /\ cgen'[c] > cgen[c]
            /\ cgen'[c] = Len(published)
            /\ cframe'[c] = published[Len(published)]]_vars

\* a client that has returned from the wait before is returning again
C3_Witness ==
    \E c \in Clients : cpc[c] = "woken" /\ cgen[c] >= 1

\* no client is left in the wait queue by a publish
NoLostWakeup ==
    /\ ppc = "unlock" => \A c \in Clients : cpc[c] # "waiting"
    /\ \A c \in Clients : c \in waiters <=> cpc[c] = "waiting"
    /\ \A c \in Clients : cpc[c] \in {"notified", "woken"} =>
          /\ wokenBy[c] >= 1
          /\ wokenBy[c] <= Len(published)

\* C4 as stated: a publish wakes every client blocked in the wait, and each
\* woken client observes the frame of the very publish that woke it.
C4_WokenClientSeesItsPublish ==
    /\ NoLostWakeup
    /\ \A c \in Clients : cpc[c] = "send" => cgen[c] = wokenBy[c]

\* C4 amended: a publish releases every client blocked in the wait, and
\* each of them observes, when its wait returns, the frame of the publish
\* that woke it or of a later publish (the latest one at that moment).
C4_WokenClientSeesItsPublishOrLater ==
    /\ NoLostWakeup
    /\ \A c \in Clients : cpc[c] = "send" =>
          /\ cgen[c] >= wokenBy[c]
          /\ cframe[c] = published[cgen[c]]

\* both clients were woken by the same publish, and one of them has
\* observed a later one
C4_Witness ==
    \E c \in Clients :
       /\ cpc[c] = "send"
       /\ cgen[c] > wokenBy[c]
       /\ \A d \in Clients : wokenBy[d] = wokenBy[c]

-----------------------------------------------------------------------------
(* The tick: claims C5 to C10, under SpecMode.                             *)

OracleFailed == lastTick.oracle \in {"bad_status", "exception"}

\* C5: when the weather api fails on a tick, self.sunrise and self.sunset
\* keep the values they had before the tick.
C5_FailureKeepsSunWindow ==
    OracleFailed => <<sunrise, sunset>> = lastTick.before

\* C6: no exception escapes a tick on which the weather api fails; with no
\* cached window the tick does nothing, with a cached one it goes on with it.
C6_FailureNeverEscapes ==
    OracleFailed =>
        /\ lastTick.outcome # "raised"
        /\ tpc # "raised"
        /\ lastTick.before = <<NoTime, NoTime>> =>
                lastTick.outcome \in {"running", "none"}

\* C7: a tick at a later hour than t, which finds the window cached by a
\* successful call at hour t, asks the weather api again exactly when more
\* than 4 hours have passed since t.
C7_RefreshOnlyAfterFourHours ==
    (/\ lastTick.outcome \notin {"no_tick", "skipped"}
     /\ lastTick.before[1] # NoTime
     /\ lastTick.prev_refresh # NoTime
     /\ now > lastTick.prev_refresh) =>
        (lastTick.oracle # "not_called"
            <=> now - lastTick.prev_refresh > StaleAfter)

NoSideEffect ==
    /\ tpc' = "idle"
    /\ UNCHANGED <<mode, camera, shutdown_called, out_framerate, original>>

\* C8: a tick that finds mode = Day after the cached sunset starts the one
\* transition to Night; a tick that finds mode = Night under the same
\* condition, or mode = Day inside the window, returns without touching the
\* camera, the broadcaster or the mode.
C8_TicksAreIdempotent ==
    [][(tpc = "decide" /\ tpc' # "decide" /\ sunrise # NoTime) =>
         /\ (mode = "day" /\ now > sunset) =>
               /\ mode' = "night"
               /\ tpc' = "n_suspend"
               /\ UNCHANGED <<camera, shutdown_called, out_framerate>>
         /\ (mode = "night" /\ now > sunset) => NoSideEffect
         /\ (mode = "day" /\ sunrise <= now /\ now <= sunset) => NoSideEffect
      ]_vars

\* after the transition to Night has completed, a later tick past the
\* sunset has returned and the camera still records with the night settings
C8_Witness ==
    /\ tpc = "idle"
    /\ lastTick.outcome = "none"
    /\ mode = "night"
    /\ now > sunset
    /\ camera.recording
    /\ camera.framerate = NightFramerate
    /\ ~shutdown_called

\* C9: after a completed tick with a cached window, mode = Day exactly when
\* sunrise <= now <= sunset.
C9_ModeMatchesClosedWindow ==
    (tpc = "idle" /\ lastTick.outcome \in {"none", "to_night", "to_day"}) =>
        (mode = "day" <=> (sunrise <= now /\ now <= sunset))

NightSteps == {"n_suspend", "n_stop", "n_settings", "n_settle", "n_exposure",
               "n_resume", "n_start"}

NightApplied ==
    /\ camera.framerate = NightFramerate
    /\ camera.shutter_speed = NightShutterSpeed
    /\ camera.iso = NightIso
    /\ camera.exposure_mode = "off"

\* C10: mode = Night is set last in the Day->Night transition, so that in
\* every state mode = Night implies that the night settings are applied and
\* the producer is recording again.
C10_NightIsSetLast ==
    /\ tpc \in NightSteps => mode = "day"
    /\ mode = "night" => (NightApplied /\ camera.recording)

\* the part of C10 that the code satisfies: the settings change only while
\* the producer is stopped
SettingsChangeOnlyWhileStopped ==
    [][Settings(camera') # Settings(camera) =>
          (~camera.recording /\ ~camera'.recording)]_vars

-----------------------------------------------------------------------------
(* Claim C11, under SpecMode.                                              *)

DaySteps == {"d_suspend", "d_stop", "d_settings", "d_start"}

\* C11: whenever mode = Day and no transition is in progress, the camera's
\* framerate, shutter speed, ISO and exposure mode and the broadcaster's
\* framerate are the ones captured at startup, and the saved original
\* settings are still those of the camera at startup.
C11_DayRestoresStartupSettings ==
    /\ original = Settings(CameraAtStartup)
    /\ (mode = "day" /\ tpc \notin DaySteps) =>
          /\ Settings(camera) = original
          /\ out_framerate = original.framerate

\* a Night->Day transition has just completed (after the Day->Night one
\* that had applied the night settings)
C11_Witness ==
    /\ mode = "day"
    /\ tpc = "idle"
    /\ lastTick.outcome = "to_day"
    /\ camera.recording

-----------------------------------------------------------------------------
(* Claim C12, under SpecDaemon.                                            *)

-----------------------------------------------------------------------------
(* Claims C13 and C14: the picture file saved by write.                    *)

\* C13: when the save of the picture file has raised during a write call
\* for a chunk that begins with the marker, that call has still published
\* (one publish per marker chunk, the latest being the current frame) and
\* has still appended its chunk.
C13_SaveFailureStillPublishes ==
    (ppc = "raised" /\ StartsWithMarker(buf)) =>
        /\ written # <<>>
        /\ written[Len(written)] = buf
        /\ Len(published) = NumMarkers(written)
        /\ published # <<>>
        /\ frame = published[Len(published)]

\* C14: once the write calls made so far have returned, the picture file
\* saved last holds the bytes of a frame that was published, and the latest
\* chunk, when it does not begin with the marker, is not what was saved at
\* the time of its write.
C14_SavedPictureIsPublishedFrame ==
    (ppc = "idle" /\ last_saved # NoBytes) =>
        \E k \in 1..Len(published) : published[k] = last_saved

-----------------------------------------------------------------------------
(* Claims C15 and C16: the clients' handlers, under SpecStream.            *)

\* C15: the step that ends a client's loop on a socket failure changes
\* nothing but that client's position: every other client and the producer
\* are where they were, the lock and the wait queue are untouched; a closed
\* client holds no lock and is in no wait queue; and a publish made while a
\* client is closed still releases every client that is waiting, for that
\* publish.
C15_ClientFailureIsIsolated ==
    [][ /\ \A c \in Clients :
             (cpc[c] # "closed" /\ cpc'[c] = "closed") =>
                /\ cpc[c] = "send"
                /\ \A d \in Clients \ {c} : cpc'[d] = cpc[d]
                /\ UNCHANGED <<clientFrame, lock, waiters, cframe, cgen,
                               wokenBy>>
                /\ lock # c
                /\ c \notin waiters
        /\ ((\E c \in Clients : cpc[c] = "closed")
             /\ ppc = "publish" /\ ppc' # "publish") =>
                /\ published' = Append(published, frame')
                /\ \A d \in waiters :
                      /\ cpc'[d] = "notified"
                      /\ wokenBy'[d] = Len(published')
                /\ \A d \in Clients : cpc[d] = "closed" => cpc'[d] = "closed"
      ]_vars

\* c1 has received a part and its loop has ended; a later publish has just
\* released c2
C15_Witness ==
    /\ cpc["c1"] = "closed"
    /\ cgen["c1"] >= 1
    /\ cpc["c2"] = "notified"
    /\ ppc = "unlock"
    /\ wokenBy["c2"] = Len(published)
    /\ wokenBy["c2"] > cgen["c1"]

\* C16: a client holds the condition's lock only between taking it and
\* entering the wait, and between the return of the wait and the read of
\* the frame: never while it sends, and never once its loop has ended. So
\* when no client is at one of these two places, the producer that has
\* reached line 71 can take the lock.
C16_NoLockDuringSocketIO ==
    /\ \A c \in Clients : lock = c => cpc[c] \in {"enter", "woken"}
    /\ \A c \in Clients : cpc[c] \in {"enter", "woken"} => lock = c
    /\ (ppc = "lock" /\ \A c \in Clients : cpc[c] \notin {"enter", "woken"})
          => ENABLED WriteLock
    /\ ppc \in {"publish", "unlock"} => ENABLED (WritePublish \/ WriteFinish)

\* the producer holds the lock for a publish while c1 is sending and c2's
\* loop has ended
C16_Witness ==
    /\ cpc["c1"] = "send"
    /\ cpc["c2"] = "closed"
    /\ ppc = "publish"
    /\ lock = Producer

-----------------------------------------------------------------------------
(* Claims C17 and C18, under SpecDaemon.                                   *)

\* C17: once StreamingServer.shutdown has completed, no client is blocked
\* in the wait of line 171.
C17_ShutdownLeavesNoWaiter ==
    tpc = "shutdown" => \A c \in Clients : cpc[c] # "waiting"

\* the thread of serve_forever, which runs service_actions
Control == "control"

\* C18: every step that changes a part of the broadcaster's state that
\* another thread reads is taken by a thread that holds the condition's
\* lock: the producer for the frame (read by the clients), the control
\* thread for the suspended flag and the throttle's framerate (read by the
\* producer at each write call).
C18_SharedStateOnlyUnderLock ==
    [][ /\ frame' # frame => lock = Producer
        /\ shutdown_called' # shutdown_called => lock = Control
        /\ out_framerate' # out_framerate => lock = Control
      ]_vars

-----------------------------------------------------------------------------
(* Claim C19, under SpecDaemonFair.                                        *)

\* client c is still blocked and no write call will release it: the
\* transition has raised, the producer has ended or has made its last write
\* call, or the server is shut down
ProducerEnded(c) ==
    \/ tpc = "raised"
    \/ /\ cpc[c] = "waiting"
       /\ \/ ppc = "raised"
          \/ tpc \in {"stopping", "shutdown"}
          \/ Len(written) = MaxWrites

\* C19: while the camera is not recording, a client blocked in the wait
\* stays blocked, is not closed and is handed no frame, and no publish is
\* made; a blocked client leaves the wait only by a publish made at that
\* step, and the frame it then reads is that publish or a later one; and a
\* client that is blocked during the settle of a Day->Night transition
\* eventually has read a frame, unless the producer does not write a frame
\* after the restart (it has ended, recording did not start, or the server
\* was shut down).
C19_WaiterSurvivesTransition ==
    /\ [][ \A c \in DaemonClients :
              /\ (cpc[c] = "waiting" /\ ~camera.recording) =>
                    /\ cpc'[c] = "waiting"
                    /\ cframe'[c] = cframe[c]
                    /\ cgen'[c] = cgen[c]
                    /\ published' = published
              /\ (cpc[c] = "waiting" /\ cpc'[c] # "waiting") =>
                    /\ cpc'[c] = "notified"
                    /\ Len(published') = Len(published) + 1
                    /\ wokenBy'[c] = Len(published')
              /\ (cpc[c] = "woken" /\ cpc'[c] = "send") =>
                    /\ cgen'[c] >= wokenBy[c]
                    /\ cframe'[c] = published[cgen'[c]]
         ]_vars
    /\ \A c \in DaemonClients :
          (cpc[c] = "waiting" /\ tpc = "n_settle")
             ~> (cpc[c] = "send" \/ ProducerEnded(c))

\* the first write call after the restart, made with the night settings,
\* has published and released the blocked client
C19_Witness ==
    /\ mode = "night"
    /\ tpc = "idle"
    /\ camera.recording
    /\ camera.exposure_mode = "off"
    /\ ~shutdown_called
    /\ ppc = "unlock"
    /\ cpc["c1"] = "notified"
    /\ wokenBy["c1"] = Len(published)

-----------------------------------------------------------------------------
(* Claim C20, under SpecAccept.                                            *)

\* C20: a connection is accepted (its handler started) only at a step taken
\* while no tick is running, so never during a Day->Night transition or its
\* settle; the steps of a tick leave the handlers that are running, the lock
\* and the wait queue as they are; and a running handler can take its next
\* step whatever the tick is doing (a send, the entry into the wait, the
\* read of the frame; taking the lock when it is free).
C20_NoAcceptDuringTick ==
    /\ [][ /\ \A c \in Clients :
                (cpc[c] = "new" /\ cpc'[c] # "new") =>
                   /\ tpc = "idle"
                   /\ tpc \notin NightSteps
                   /\ cpc'[c] = "loop"
           /\ tpc' # tpc => UNCHANGED <<cpc, lock, waiters, cframe, cgen>>
         ]_vars
    /\ [](\A c \in Clients :
             /\ cpc[c] = "send" => ENABLED ClientSend(c)
             /\ cpc[c] = "enter" => ENABLED ClientWait(c)
             /\ cpc[c] = "woken" => ENABLED ClientRead(c)
             /\ (cpc[c] = "loop" /\ lock = None) => ENABLED ClientEnter(c)
             /\ (cpc[c] = "notified" /\ lock = None) => ENABLED ClientWake(c))

\* during the settle, c2's connection is pending while c1's handler, started
\* earlier, is sending a part
C20_Witness ==
    /\ tpc = "n_settle"
    /\ cpc["c2"] = "new"
    /\ cpc["c1"] = "send"
    /\ cgen["c1"] >= 1

=============================================================================
